---- MODULE Spec2Model ----
(***************************************************************************)
(* Model of src/creational/singleton/example.ts: the StateManager          *)
(* singleton, the SessionHandler and KKTLiveChatSDK facades, and the       *)
(* script that uses the SDK.                                               *)
(*                                                                         *)
(* Objects and arrays live in heaps and are named by references, so that   *)
(* identity (one instance or several) and aliasing (a new array or the     *)
(* same array changed in place) are visible in the state.                  *)
(***************************************************************************)
EXTENDS Integers, Sequences, FiniteSets, TLC

VARIABLES
  instance,   \* StateManager.instance: Undefined or a reference into objects
  objects,    \* heap of StateManager objects, in order of construction
  arrays,     \* heap of arrays; a reference is an index
  handlers,   \* number of SessionHandler objects constructed so far
  sdks,       \* heap of KKTLiveChatSDK objects, in order of construction
  ret,        \* value returned by the last call
  lastOp,     \* the last call made by the caller: class, method, arguments
  pushed,     \* history: arguments of the pushMessage invocations, in order
  statusSet,  \* history: setConnectionStatus has been invoked
  script      \* position of the top-level script (source line), or "idle"

vars == <<instance, objects, arrays, handlers, sdks, ret, lastOp, pushed,
          statusSet, script>>

----------------------------------------------------------------------------
(* Bounds of the model *)

MaxMsgs == 2
MaxAtts == 1
MaxHandlers == 2
MaxTime == 9

----------------------------------------------------------------------------
(* Values *)

Undefined == 0

ConnectionStatus == {"connected", "connecting", "disconnected"}

\* Message records; id is optional, so some values have no id field.
Message ==
  { [content |-> "Hello, how are you?", sender |-> "John Doe", timestamp |-> 1],
    [id |-> "m-7", content |-> "ping", sender |-> "Jane Roe", timestamp |-> 2] }

\* Attachment records; id and file are optional.
Attachment ==
  { [url |-> "https://cdn/a.png", type |-> "image/png", size |-> 10],
    [id |-> "a-3", url |-> "https://cdn/b.pdf", type |-> "application/pdf",
     size |-> 20] }

\* Date.now(): some integer number of milliseconds
DateNow == 0..MaxTime

RetUndefined == [type |-> "undefined"]
RetArray(r) == [type |-> "array", ref |-> r]
RetStatus(v) == [type |-> "status", value |-> v]
RetObject(r) == [type |-> "object", ref |-> r]

\* the outcome of evaluating a call: the store after it, the value returned
Result(s, r) == [store |-> s, ret |-> r]

----------------------------------------------------------------------------
(* class StateManager, as functions on the store *)

Store == [instance |-> instance, objects |-> objects, arrays |-> arrays]

\* new StateManager(): the field initialisers; the new object is the last one
StateManager_new(s) ==
  [s EXCEPT
     !.arrays = @ \o << <<>>, <<>> >>,
     !.objects = Append(@, [connectionStatus |-> "disconnected",
                            messages |-> Len(s.arrays) + 1,
                            attachments |-> Len(s.arrays) + 2])]

\* a version that constructs on every call
getInstance_alwaysNew(s) ==
  LET t == StateManager_new(s)
  IN Result([t EXCEPT !.instance = Len(t.objects)], RetObject(Len(t.objects)))

\* a version that constructs when the field is unset but never sets it
getInstance_neverStores(s) ==
  IF s.instance = Undefined
  THEN LET t == StateManager_new(s) IN Result(t, RetObject(Len(t.objects)))
  ELSE Result(s, RetObject(s.instance))

\* static getInstance(): if (!this.instance) this.instance = new ...;
\* return this.instance
getInstance(s) ==
  LET t == IF s.instance = Undefined
           THEN LET n == StateManager_new(s)
                IN [n EXCEPT !.instance = Len(n.objects)]
           ELSE s
  IN Result(t, RetObject(t.instance))

\* a version that accepts "connected" only from "connecting"
setConnectionStatus_guarded(s, this, status) ==
  IF status = "connected" /\ s.objects[this].connectionStatus # "connecting"
  THEN s
  ELSE [s EXCEPT !.objects[this].connectionStatus = status]

setConnectionStatus(s, this, status) ==
  [s EXCEPT !.objects[this].connectionStatus = status]

getConnectionStatus(s, this) == s.objects[this].connectionStatus

\* a version that pushes in place
pushMessage_inPlace(s, this, message) ==
  [s EXCEPT !.arrays[s.objects[this].messages] = Append(@, message)]

\* a version that puts the new message first: [message, ...this.messages]
pushMessage_prepend(s, this, message) ==
  [s EXCEPT
     !.arrays = Append(@, <<message>> \o s.arrays[s.objects[this].messages]),
     !.objects[this].messages = Len(s.arrays) + 1]

\* a version that forgets the spread: [message]
pushMessage_replace(s, this, message) ==
  [s EXCEPT
     !.arrays = Append(@, <<message>>),
     !.objects[this].messages = Len(s.arrays) + 1]

\* this.messages = [...this.messages, message]: a new array
pushMessage(s, this, message) ==
  [s EXCEPT
     !.arrays = Append(@, Append(s.arrays[s.objects[this].messages], message)),
     !.objects[this].messages = Len(s.arrays) + 1]

getMessages(s, this) == s.objects[this].messages

\* a version that pushes onto the other array: this.messages.push(attachment)
pushAttachment_intoMessages(s, this, attachment) ==
  [s EXCEPT !.arrays[s.objects[this].messages] = Append(@, attachment)]

\* this.attachments.push(attachment): the same array, changed in place
pushAttachment(s, this, attachment) ==
  [s EXCEPT !.arrays[s.objects[this].attachments] = Append(@, attachment)]

getAttachments(s, this) == s.objects[this].attachments

----------------------------------------------------------------------------
(* The call expressions a caller evaluates                                 *)

\* StateManager.getInstance()
Call_getInstance(s) == getInstance(s)

\* StateManager.getInstance().setConnectionStatus(status)
Call_setConnectionStatus(s, status) ==
  LET g == getInstance(s)
  IN Result(setConnectionStatus(g.store, g.ret.ref, status), RetUndefined)

\* StateManager.getInstance().getConnectionStatus()
Call_getConnectionStatus(s) ==
  LET g == getInstance(s)
  IN Result(g.store, RetStatus(getConnectionStatus(g.store, g.ret.ref)))

\* StateManager.getInstance().pushMessage(message)
Call_pushMessage(s, message) ==
  LET g == getInstance(s)
  IN Result(pushMessage(g.store, g.ret.ref, message), RetUndefined)

\* StateManager.getInstance().getMessages()
Call_getMessages(s) ==
  LET g == getInstance(s)
  IN Result(g.store, RetArray(getMessages(g.store, g.ret.ref)))

\* StateManager.getInstance().pushAttachment(attachment)
Call_pushAttachment(s, attachment) ==
  LET g == getInstance(s)
  IN Result(pushAttachment(g.store, g.ret.ref, attachment), RetUndefined)

\* StateManager.getInstance().getAttachments()
Call_getAttachments(s) ==
  LET g == getInstance(s)
  IN Result(g.store, RetArray(getAttachments(g.store, g.ret.ref)))

----------------------------------------------------------------------------
(* class SessionHandler: no fields; every method is one call on the        *)
(* instance                                                                *)

\* a version of connect() that completes the handshake
SessionHandler_connect_connected(s) == Call_setConnectionStatus(s, "connected")

SessionHandler_connect(s) == Call_setConnectionStatus(s, "connecting")

SessionHandler_disconnect(s) == Call_setConnectionStatus(s, "disconnected")

\* a version of sendMessage() that connects first
SessionHandler_sendMessage_connecting(s, message) ==
  Call_pushMessage(Call_setConnectionStatus(s, "connecting").store, message)

SessionHandler_sendMessage(s, message) == Call_pushMessage(s, message)

SessionHandler_sendAttachment(s, attachment) == Call_pushAttachment(s, attachment)

SessionHandler_getMessages(s) == Call_getMessages(s)

SessionHandler_getAttachments(s) == Call_getAttachments(s)

----------------------------------------------------------------------------
(* class KKTLiveChatSDK: one field, sessionHandler; every method is        *)
(* this.sessionHandler?.method(...)                                        *)

\* a constructor that leaves the field unset
KKTLiveChatSDK_new_unset(h) == [sessionHandler |-> Undefined]

\* the object the constructor builds, h the SessionHandler it has just made
KKTLiveChatSDK_new(h) == [sessionHandler |-> h]

\* a?.m(): when a is undefined the call is skipped and yields undefined
Skipped(s) == Result(s, RetUndefined)

KKTLiveChatSDK_connect(s, this) ==
  IF this.sessionHandler # Undefined THEN SessionHandler_connect(s) ELSE Skipped(s)

KKTLiveChatSDK_disconnect(s, this) ==
  IF this.sessionHandler # Undefined THEN SessionHandler_disconnect(s) ELSE Skipped(s)

KKTLiveChatSDK_sendMessage(s, this, message) ==
  IF this.sessionHandler # Undefined
  THEN SessionHandler_sendMessage(s, message) ELSE Skipped(s)

KKTLiveChatSDK_sendAttachment(s, this, attachment) ==
  IF this.sessionHandler # Undefined
  THEN SessionHandler_sendAttachment(s, attachment) ELSE Skipped(s)

KKTLiveChatSDK_getMessages(s, this) ==
  IF this.sessionHandler # Undefined THEN SessionHandler_getMessages(s) ELSE Skipped(s)

KKTLiveChatSDK_getAttachments(s, this) ==
  IF this.sessionHandler # Undefined
  THEN SessionHandler_getAttachments(s) ELSE Skipped(s)

----------------------------------------------------------------------------
(* What a caller reads through the accessor in the current state *)

\* the contents of the array getMessages() returns now
Messages ==
  LET r == Call_getMessages(Store) IN r.store.arrays[r.ret.ref]

\* the contents of the array getAttachments() returns now
Attachments ==
  LET r == Call_getAttachments(Store) IN r.store.arrays[r.ret.ref]

\* the value getConnectionStatus() returns now
Status == Call_getConnectionStatus(Store).ret.value

----------------------------------------------------------------------------
(* Actions: one per call a caller can make *)

SM == "StateManager"
SH == "SessionHandler"
SDK == "KKTLiveChatSDK"

\* the caller makes the call named (class, op, arg), whose result is r
Call(class, op, arg, r) ==
  /\ instance' = r.store.instance
  /\ objects' = r.store.objects
  /\ arrays' = r.store.arrays
  /\ ret' = r.ret
  /\ lastOp' = [class |-> class, op |-> op, arg |-> arg]
  /\ pushed' = IF op \in {"pushMessage", "sendMessage"}
               THEN pushed \o arg ELSE pushed
  /\ statusSet' = (statusSet \/ op \in {"setConnectionStatus", "connect",
                                        "disconnect"})
  /\ UNCHANGED <<handlers, sdks>>


Handlers == 1..handlers
Sdks == DOMAIN sdks

\* the caller is not the top-level script
Idle == script = "idle" /\ UNCHANGED script

GetInstance == Idle /\ Call(SM, "getInstance", <<>>, Call_getInstance(Store))

SMSetConnectionStatus(status) ==
  /\ Idle
  /\ Call(SM, "setConnectionStatus", <<status>>,
          Call_setConnectionStatus(Store, status))

SetConnectionStatus == \E status \in ConnectionStatus : SMSetConnectionStatus(status)

GetConnectionStatus ==
  Idle /\ Call(SM, "getConnectionStatus", <<>>, Call_getConnectionStatus(Store))

PushMessage ==
  /\ Idle
  /\ Len(Messages) < MaxMsgs
  /\ \E m \in Message : Call(SM, "pushMessage", <<m>>, Call_pushMessage(Store, m))

GetMessages == Idle /\ Call(SM, "getMessages", <<>>, Call_getMessages(Store))

PushAttachment ==
  /\ Idle
  /\ Len(Attachments) < MaxAtts
  /\ \E a \in Attachment :
       Call(SM, "pushAttachment", <<a>>, Call_pushAttachment(Store, a))

GetAttachments == Idle /\ Call(SM, "getAttachments", <<>>, Call_getAttachments(Store))

\* new SessionHandler()
NewSessionHandler ==
  /\ Idle
  /\ handlers < MaxHandlers
  /\ handlers' = handlers + 1
  /\ ret' = RetObject(handlers + 1)
  /\ lastOp' = [class |-> SH, op |-> "constructor", arg |-> <<>>]
  /\ UNCHANGED <<instance, objects, arrays, sdks, pushed, statusSet>>

SHConnect ==
  Idle /\ \E h \in Handlers : Call(SH, "connect", <<>>, SessionHandler_connect(Store))

SHDisconnect ==
  Idle /\ \E h \in Handlers : Call(SH, "disconnect", <<>>, SessionHandler_disconnect(Store))

SHSendMessage ==
  /\ Idle
  /\ Len(Messages) < MaxMsgs
  /\ \E h \in Handlers, m \in Message :
       Call(SH, "sendMessage", <<m>>, SessionHandler_sendMessage(Store, m))

SHSendAttachment ==
  /\ Idle
  /\ Len(Attachments) < MaxAtts
  /\ \E h \in Handlers, a \in Attachment :
       Call(SH, "sendAttachment", <<a>>, SessionHandler_sendAttachment(Store, a))

SHGetMessages ==
  Idle /\ \E h \in Handlers : Call(SH, "getMessages", <<>>, SessionHandler_getMessages(Store))

SHGetAttachments ==
  Idle /\ \E h \in Handlers :
    Call(SH, "getAttachments", <<>>, SessionHandler_getAttachments(Store))

\* new KKTLiveChatSDK(): constructs its own SessionHandler
SDKNew ==
  /\ handlers < MaxHandlers
  /\ handlers' = handlers + 1
  /\ sdks' = Append(sdks, KKTLiveChatSDK_new(handlers + 1))
  /\ ret' = RetObject(Len(sdks) + 1)
  /\ lastOp' = [class |-> SDK, op |-> "constructor", arg |-> <<>>]
  /\ UNCHANGED <<instance, objects, arrays, pushed, statusSet>>

SDKConnect(k) == Call(SDK, "connect", <<>>, KKTLiveChatSDK_connect(Store, sdks[k]))

SDKDisconnect(k) ==
  Call(SDK, "disconnect", <<>>, KKTLiveChatSDK_disconnect(Store, sdks[k]))

SDKSendMessage(k, m) ==
  /\ Len(Messages) < MaxMsgs
  /\ Call(SDK, "sendMessage", <<m>>, KKTLiveChatSDK_sendMessage(Store, sdks[k], m))

SDKSendAttachment(k, a) ==
  /\ Len(Attachments) < MaxAtts
  /\ Call(SDK, "sendAttachment", <<a>>,
          KKTLiveChatSDK_sendAttachment(Store, sdks[k], a))

SDKGetMessages(k) ==
  Call(SDK, "getMessages", <<>>, KKTLiveChatSDK_getMessages(Store, sdks[k]))

SDKGetAttachments(k) ==
  Call(SDK, "getAttachments", <<>>, KKTLiveChatSDK_getAttachments(Store, sdks[k]))

NewSDK == Idle /\ SDKNew
SdkConnect == Idle /\ \E k \in Sdks : SDKConnect(k)
SdkDisconnect == Idle /\ \E k \in Sdks : SDKDisconnect(k)
SdkSendMessage == Idle /\ \E k \in Sdks, m \in Message : SDKSendMessage(k, m)
SdkSendAttachment == Idle /\ \E k \in Sdks, a \in Attachment : SDKSendAttachment(k, a)
SdkGetMessages == Idle /\ \E k \in Sdks : SDKGetMessages(k)
SdkGetAttachments == Idle /\ \E k \in Sdks : SDKGetAttachments(k)

----------------------------------------------------------------------------
(* Specifications *)

Init ==
  /\ instance = Undefined
  /\ objects = <<>>
  /\ arrays = <<>>
  /\ handlers = 0
  /\ sdks = <<>>
  /\ ret = RetUndefined
  /\ lastOp = [class |-> "none", op |-> "none", arg |-> <<>>]
  /\ pushed = <<>>
  /\ statusSet = FALSE
  /\ script = "idle"

\* any caller, any order of calls, on the classes as defined
Next ==
  \/ GetInstance
  \/ SetConnectionStatus
  \/ GetConnectionStatus
  \/ PushMessage
  \/ GetMessages
  \/ PushAttachment
  \/ GetAttachments
  \/ NewSessionHandler
  \/ SHConnect
  \/ SHDisconnect
  \/ SHSendMessage
  \/ SHSendAttachment
  \/ SHGetMessages
  \/ SHGetAttachments
  \/ NewSDK
  \/ SdkConnect
  \/ SdkDisconnect
  \/ SdkSendMessage
  \/ SdkSendAttachment
  \/ SdkGetMessages
  \/ SdkGetAttachments

Spec == Init /\ [][Next]_vars

\* callers that use the two facade classes only
FacadeNext ==
  \/ NewSessionHandler
  \/ SHConnect
  \/ SHDisconnect
  \/ SHSendMessage
  \/ SHSendAttachment
  \/ SHGetMessages
  \/ SHGetAttachments
  \/ NewSDK
  \/ SdkConnect
  \/ SdkDisconnect
  \/ SdkSendMessage
  \/ SdkSendAttachment
  \/ SdkGetMessages
  \/ SdkGetAttachments

SpecFacade == Init /\ [][FacadeNext]_vars

----------------------------------------------------------------------------
(* The top-level script, lines 125-141 *)

Hello(t) ==
  [content |-> "Hello, how are you?", sender |-> "John Doe", timestamp |-> t]

Help(t) ==
  [content |-> "I need your help to fix my computer", sender |-> "John Doe",
   timestamp |-> t]

\* const sdk = new KKTLiveChatSDK(); sdk is the first SDK object
Line125 == script = "line125" /\ SDKNew /\ script' = "line126"

\* sdk.connect()
Line126 == script = "line126" /\ SDKConnect(1) /\ script' = "line127"

\* sdk.sendMessage({... timestamp: Date.now()})
Line127 ==
  /\ script = "line127"
  /\ \E t \in DateNow : SDKSendMessage(1, Hello(t))
  /\ script' = "line132"

Line132 ==
  /\ script = "line132"
  /\ \E t \in DateNow : SDKSendMessage(1, Help(t))
  /\ script' = "line139"

\* sdk.getMessages().forEach(...): forEach of undefined throws a TypeError
Line139 ==
  /\ script = "line139"
  /\ SDKGetMessages(1)
  /\ script' = IF ret'.type = "array" THEN "done" ELSE "TypeError"

InitScript ==
  /\ instance = Undefined
  /\ objects = <<>>
  /\ arrays = <<>>
  /\ handlers = 0
  /\ sdks = <<>>
  /\ ret = RetUndefined
  /\ lastOp = [class |-> "none", op |-> "none", arg |-> <<>>]
  /\ pushed = <<>>
  /\ statusSet = FALSE
  /\ script = "line125"

ScriptNext ==
  \/ Line125
  \/ Line126
  \/ Line127
  \/ Line132
  \/ Line139

SpecScript == InitScript /\ [][ScriptNext]_vars

----------------------------------------------------------------------------
(* Properties *)

Facades == {SH, SDK}
Classes == {SM, SH, SDK}
PushOps == {"pushMessage", "sendMessage"}
AttachOps == {"pushAttachment", "sendAttachment"}
StatusOps == {"setConnectionStatus", "connect", "disconnect"}
GetOps == {"getInstance", "getConnectionStatus", "getMessages", "getAttachments"}

\* the last call went through the accessor
Accessed == lastOp.class \in Classes /\ lastOp.op # "constructor"

C1_Inv ==
  /\ Len(objects) <= 1
  /\ instance = Len(objects)
  /\ Accessed => instance # Undefined
  /\ lastOp.op = "getInstance" => ret = RetObject(instance)

C1_Step ==
  /\ instance # Undefined => instance' = instance /\ Len(objects') = Len(objects)
  /\ Accessed' => Len(objects') = 1 /\ instance' = 1
  /\ (instance # Undefined /\ lastOp'.op \in GetOps) =>
        objects' = objects /\ arrays' = arrays
  /\ lastOp'.op = "constructor" => objects' = objects /\ instance' = instance

\* C1: at most one StateManager is ever constructed; it is constructed by the
\* first call that goes through getInstance(), whoever makes it; every
\* getInstance() returns that one object; and a later accessor call neither
\* replaces it nor resets what was written to it.
C1_SingletonIdentity == []C1_Inv /\ [][C1_Step]_vars

\* several routes to the accessor have been used and the state written
\* through them is still there
C1_Witness ==
  /\ lastOp = [class |-> SM, op |-> "getInstance", arg |-> <<>>]
  /\ ret = RetObject(1)
  /\ handlers = 2 /\ Len(sdks) = 1
  /\ Len(Messages) = 2 /\ Status = "connecting"

C2_Inv ==
  /\ Messages = pushed
  /\ lastOp.op = "getMessages" =>
        ret.type = "array" /\ arrays[ret.ref] = pushed

C2_Step ==
  /\ lastOp'.op \in PushOps => Messages' = Append(Messages, lastOp'.arg[1])
  /\ lastOp'.op \notin PushOps => Messages' = Messages

\* C2: getMessages() returns exactly the messages pushed so far, in the order
\* pushed; a push adds its message at the end and every other call leaves the
\* sequence as it was.
C2_AppendOrder == []C2_Inv /\ [][C2_Step]_vars

\* two different messages were pushed with other calls in between, and
\* getMessages() has just returned them
C2_Witness ==
  /\ lastOp.op = "getMessages"
  /\ Len(pushed) = 2 /\ pushed[1] # pushed[2]
  /\ arrays[ret.ref] = pushed
  /\ Attachments # <<>> /\ Status = "connected"

\* what getMessages(), getAttachments() on SessionHandler h return in store s
SeenMessages(s, h) ==
  LET r == SessionHandler_getMessages(s) IN r.store.arrays[r.ret.ref]

SeenAttachments(s, h) ==
  LET r == SessionHandler_getAttachments(s) IN r.store.arrays[r.ret.ref]

C3_Step ==
  /\ (lastOp'.class \in Facades /\ lastOp'.op = "sendMessage") =>
        \A h \in Handlers :
           /\ Len(SeenMessages(Store', h)) = Len(Messages) + 1
           /\ SeenMessages(Store', h)[Len(Messages) + 1] = lastOp'.arg[1]
  /\ (lastOp'.class \in Facades /\ lastOp'.op = "sendAttachment") =>
        \A h \in Handlers :
           /\ Len(SeenAttachments(Store', h)) = Len(Attachments) + 1
           /\ SeenAttachments(Store', h)[Len(Attachments) + 1] = lastOp'.arg[1]
  /\ (lastOp'.class \in Facades /\ lastOp'.op = "connect") =>
        Call_getConnectionStatus(Store').ret = RetStatus("connecting")
  /\ (lastOp'.class \in Facades /\ lastOp'.op = "disconnect") =>
        Call_getConnectionStatus(Store').ret = RetStatus("disconnected")
  /\ \A k \in DOMAIN sdks : sdks'[k] = sdks[k]

\* C3: what is sent, or set, through one SessionHandler (its own or an SDK's)
\* is what every SessionHandler reads afterwards: the message or attachment
\* at its push position, the status as getConnectionStatus() reports it.
C3_CrossFacade == [][C3_Step]_vars

\* two SDKs, each with its own SessionHandler, and a second message sent
C3_Witness ==
  /\ Len(sdks) = 2 /\ sdks[1].sessionHandler # sdks[2].sessionHandler
  /\ lastOp.class = SDK /\ lastOp.op = "sendMessage"
  /\ Len(Messages) = 2 /\ Messages[2] = lastOp.arg[1]

C4_Step ==
  /\ lastOp'.op \in AttachOps => Messages' = Messages
  /\ lastOp'.op \in PushOps => Attachments' = Attachments

\* C4: pushing or sending an attachment leaves the message sequence as it
\* was, and pushing or sending a message leaves the attachment sequence as
\* it was, at every level.
C4_IndependentChannels == [][C4_Step]_vars

\* an attachment was sent through an SDK while messages were stored
C4_Witness ==
  /\ lastOp.class = SDK /\ lastOp.op = "sendAttachment"
  /\ Len(Messages) = 2 /\ Len(Attachments) = 1

\* C5: setConnectionStatus(s) can be called in every state with every s, and
\* afterwards the status read is s, whatever it was before; before any call
\* that sets the status, the status read is "disconnected".
C5_StatusOverwrite ==
  /\ ~statusSet => Status = "disconnected"
  /\ lastOp.op = "setConnectionStatus" => Status = lastOp.arg[1]
  /\ lastOp.op = "getConnectionStatus" => ret = RetStatus(Status)
  /\ \A status \in ConnectionStatus : ENABLED SMSetConnectionStatus(status)

\* "connected" was set directly, without passing through "connecting"
C5_Witness ==
  /\ lastOp = [class |-> SM, op |-> "setConnectionStatus", arg |-> <<"connected">>]
  /\ Status = "connected"
  /\ Messages # <<>>

\* the same call made on a SessionHandler
SessionHandlerCall(op, arg, s) ==
  CASE op = "connect" -> SessionHandler_connect(s)
    [] op = "disconnect" -> SessionHandler_disconnect(s)
    [] op = "sendMessage" -> SessionHandler_sendMessage(s, arg[1])
    [] op = "sendAttachment" -> SessionHandler_sendAttachment(s, arg[1])
    [] op = "getMessages" -> SessionHandler_getMessages(s)
    [] op = "getAttachments" -> SessionHandler_getAttachments(s)

C6_Inv ==
  /\ \A k \in Sdks : sdks[k].sessionHandler \in Handlers
  /\ \A k1, k2 \in Sdks :
        k1 # k2 => sdks[k1].sessionHandler # sdks[k2].sessionHandler
  /\ (lastOp.class = SDK /\ lastOp.op \in {"getMessages", "getAttachments"}) =>
        ret.type = "array" /\ ret.ref \in DOMAIN arrays

C6_Step ==
  /\ (lastOp'.class = SDK /\ lastOp'.op # "constructor") =>
        LET r == SessionHandlerCall(lastOp'.op, lastOp'.arg, Store)
        IN Store' = r.store /\ ret' = r.ret
  /\ (lastOp'.class = SDK /\ lastOp'.op = "constructor") =>
        /\ Len(sdks') = Len(sdks) + 1
        /\ sdks'[Len(sdks')].sessionHandler \in Handlers' \ Handlers
  /\ \A k \in Sdks : sdks'[k] = sdks[k]

\* C6: every SDK object holds a SessionHandler of its own from construction
\* on, never replaced; so every call on an SDK changes the shared state and
\* returns exactly as the same call on a SessionHandler does, and
\* getMessages(), getAttachments() on an SDK return an array, never undefined.
C6_PassThrough == []C6_Inv /\ [][C6_Step]_vars

\* an SDK's getMessages() has returned a non-empty array
C6_Witness ==
  /\ lastOp.class = SDK /\ lastOp.op = "getMessages"
  /\ ret.type = "array" /\ Len(arrays[ret.ref]) = 2
  /\ Len(sdks) = 2

\* C7: the script constructs an SDK, connects and sends two messages; from
\* then on the status is "connecting", the attachments are empty and the
\* messages are the two sent, in order, with the fields they were sent with;
\* getMessages() returns them and the script ends without an error.
C7_EndToEnd ==
  /\ script # "TypeError"
  /\ script = "line127" => Status = "connecting" /\ Messages = <<>>
  /\ script \in {"line139", "done"} =>
        /\ Status = "connecting"
        /\ Attachments = <<>>
        /\ \E t1, t2 \in DateNow : Messages = <<Hello(t1), Help(t2)>>
        /\ Messages = pushed
        /\ Len(objects) = 1 /\ Len(sdks) = 1
  /\ script = "done" =>
        /\ ret.type = "array"
        /\ arrays[ret.ref] = pushed
        /\ Len(arrays[ret.ref]) = 2

\* the script has ended; the clock went backwards between the two messages
C7_Witness ==
  /\ script = "done"
  /\ ret.type = "array"
  /\ Len(arrays[ret.ref]) = 2
  /\ arrays[ret.ref][1].timestamp > arrays[ret.ref][2].timestamp

\* C8: with callers that use only SessionHandler and KKTLiveChatSDK objects
\* the status is never "connected": connect() leaves it "connecting",
\* disconnect() leaves it "disconnected", nothing else sets it.
C8_NeverConnected ==
  /\ Status \in {"disconnected", "connecting"}
  /\ lastOp.op = "connect" => Status = "connecting"
  /\ lastOp.op = "disconnect" => Status = "disconnected"

\* an SDK connected after a disconnect, with messages stored
C8_Witness ==
  /\ lastOp.class = SDK /\ lastOp.op = "connect"
  /\ Status = "connecting"
  /\ Len(Messages) = 2

C9_Step ==
  /\ lastOp'.op \in StatusOps =>
        Messages' = Messages /\ Attachments' = Attachments
  /\ lastOp'.op \in PushOps \cup AttachOps => Status' = Status
  /\ lastOp'.op \in GetOps =>
        /\ Status' = Status /\ Messages' = Messages /\ Attachments' = Attachments
        /\ Store' = getInstance(Store).store
  /\ lastOp'.op = "constructor" => Store' = Store

\* C9: connect, disconnect and setConnectionStatus leave both sequences as
\* they were; the send and push calls leave the status as it was; the getters
\* leave all three as they were and do nothing but create the instance when
\* there is none yet.
C9_Frame == [][C9_Step]_vars

\* a getter on an SDK ran in a state where all three parts are non-default
C9_Witness ==
  /\ lastOp.class = SDK /\ lastOp.op = "getAttachments"
  /\ Status = "connecting" /\ Len(Messages) = 2 /\ Len(Attachments) = 1

MessagesRef == Call_getMessages(Store).ret.ref
AttachmentsRef == Call_getAttachments(Store).ret.ref

C10_Step ==
  /\ lastOp'.op \in PushOps =>
        /\ MessagesRef' \notin DOMAIN getInstance(Store).store.arrays
        /\ \A r \in DOMAIN arrays : arrays'[r] = arrays[r]
        /\ instance # Undefined => arrays'[MessagesRef] = Messages
  /\ lastOp'.op \in AttachOps =>
        /\ AttachmentsRef' = AttachmentsRef
        /\ arrays'[AttachmentsRef] = Append(Attachments, lastOp'.arg[1])
  /\ instance # Undefined =>
        LET att == AttachmentsRef
        IN \A r \in DOMAIN arrays : r # att => arrays'[r] = arrays[r]
  /\ instance # Undefined => AttachmentsRef' = AttachmentsRef
  /\ lastOp'.op = "getMessages" => ret'.ref = MessagesRef'
  /\ lastOp'.op = "getAttachments" => ret'.ref = AttachmentsRef'

\* C10: a push of a message stores a new array and changes no array that
\* exists, so an array getMessages() returned before keeps its contents; a
\* push of an attachment changes the one attachment array in place, so the
\* array getAttachments() returned before is still the current one and shows
\* the push.
C10_Aliasing == [][C10_Step]_vars

\* after two pushes of messages and one of an attachment: three message
\* arrays of lengths 0, 1, 2 exist side by side, and the one attachment array
\* holds the attachment
C10_Witness ==
  /\ Len(arrays) = 4
  /\ Len(arrays[1]) = 0 /\ Len(arrays[3]) = 1 /\ Len(arrays[4]) = 2
  /\ MessagesRef = 4 /\ AttachmentsRef = 2 /\ Len(arrays[2]) = 1
  /\ lastOp.op = "sendAttachment"

====
